---- MODULE Spec2Model ----
(***************************************************************************)
(* Model of scripts/reprogen.py: the generator of reproduction commands    *)
(* from dfuzzer logs.                                                      *)
(*                                                                         *)
(* Text is modelled as a sequence of one-character strings, so that        *)
(* strip, split, basename, the substring test of `in` on a str and the     *)
(* format templates are computed as Python computes them.                  *)
(***************************************************************************)
EXTENDS Integers, Sequences, FiniteSets, TLC

VARIABLES
  bus,             \* main's bus: "system" or "session" (text)
  process,         \* main's process: the key of the function in `functions`
  name_for_stdin,  \* args.name: None or a str
  results_filter,  \* args.filter: the str default or a list of str
  files,           \* args.files: list of paths, "-" for stdin
  pc,              \* "main", "loop", "body", "usage", "exit"
  fileIdx,         \* fileinput: index in files of the file being read
  line,            \* the loop variable of main
  nread,           \* number of lines fileinput has yielded
  stdout,          \* lines printed to sys.stdout
  stderr,          \* lines printed to sys.stderr
  status,          \* exit status of the interpreter, -1 while running
  log              \* history: one record per loop iteration of main

vars == <<bus, process, name_for_stdin, results_filter, files, pc, fileIdx,
          line, nread, stdout, stderr, status, log>>

-----------------------------------------------------------------------------
(* Characters a TLA+ string literal cannot hold directly. *)
Backtick == "BACKTICK"
DQuote == "\""
NL == "\n"

(* Python values: None, a str, a list. *)
None == [kind |-> "none"]
PyStr(s) == [kind |-> "str", str |-> s]
PyList(l) == [kind |-> "list", list |-> l]

(* str.format's rendering of a value for "{}". *)
Format(v) ==
  CASE v.kind = "str" -> v.str
    [] v.kind = "none" -> <<"N","o","n","e">>
    [] v.kind = "list" /\ v.list = <<>> -> <<"[","]">>

Min(a, b) == IF a < b THEN a ELSE b

(* str.strip(): leading and trailing whitespace removed.  StripTo keeps    *)
(* the span of s from its first to its last position in keep.              *)
Whitespace == {" ", NL, "\t", "\r"}

StripTo(s, keep) ==
  IF keep = {} THEN <<>>
  ELSE SubSeq(s, CHOOSE i \in keep : \A j \in keep : i <= j,
                 CHOOSE i \in keep : \A j \in keep : j <= i)

Strip(s) == StripTo(s, {i \in 1..Len(s) : s[i] \notin Whitespace})

(* str.split(sep) for a one-character sep: always at least one field.     *)
(* SplitAt cuts s at i, the position of its first sep.                      *)
RECURSIVE Split(_, _)
SplitAt(s, sep, i) ==
  <<SubSeq(s, 1, i - 1)>> \o Split(SubSeq(s, i + 1, Len(s)), sep)

Split(s, sep) ==
  IF \E i \in 1..Len(s) : s[i] = sep
  THEN SplitAt(s, sep, CHOOSE i \in 1..Len(s) :
                         s[i] = sep /\ \A j \in 1..(i - 1) : s[j] # sep)
  ELSE <<s>>

(* os.path.basename(): what follows the last "/". *)
AfterLast(p, slashes) ==
  IF slashes = {} THEN p
  ELSE SubSeq(p, (CHOOSE i \in slashes : \A j \in slashes : j <= i) + 1,
              Len(p))

Basename(p) == AfterLast(p, {i \in 1..Len(p) : p[i] = "/"})

(* `x in s` for a str s: x occurs in s as a substring. *)
IsSubstring(x, s) ==
  \E i \in 0..(Len(s) - Len(x)) : SubSeq(s, i + 1, i + Len(x)) = x

(* `x in c`: substring test on a str, membership on a list. *)
PyIn(x, c) ==
  IF c.kind = "str" THEN IsSubstring(x, c.str)
  ELSE \E k \in 1..Len(c.list) : c.list[k] = x

-----------------------------------------------------------------------------
(* The type tables. *)
(* Mutant: two tags share a type name. *)
DBUS_SEND_DICT_shared ==
  (<<"n">> :> <<"i","n","t","1","6">>) @@ (<<"q">> :> <<"i","n","t","1","6">>) @@ (<<"i">> :> <<"i","n","t","3","2">>) @@
  (<<"u">> :> <<"u","i","n","t","3","2">>) @@ (<<"x">> :> <<"i","n","t","6","4">>) @@ (<<"t">> :> <<"u","i","n","t","6","4">>) @@
  (<<"d">> :> <<"d","o","u","b","l","e">>) @@ (<<"y">> :> <<"b","y","t","e">>) @@ (<<"b">> :> <<"b","o","o","l","e","a","n">>)

DBUS_SEND_DICT ==
  (<<"n">> :> <<"i","n","t","1","6">>) @@ (<<"q">> :> <<"u","n","i","t","1","6">>) @@ (<<"i">> :> <<"i","n","t","3","2">>) @@
  (<<"u">> :> <<"u","i","n","t","3","2">>) @@ (<<"x">> :> <<"i","n","t","6","4">>) @@ (<<"t">> :> <<"u","i","n","t","6","4">>) @@
  (<<"d">> :> <<"d","o","u","b","l","e">>) @@ (<<"y">> :> <<"b","y","t","e">>) @@ (<<"b">> :> <<"b","o","o","l","e","a","n">>)

DBUS_SEND_STRINGS_DICT ==
  (<<"s">> :> <<"s","t","r","i","n","g">>) @@ (<<"o">> :> <<"o","b","j","p","a","t","h">>)

(* The str of _gdbus_format's test `arg[0] in 'sogv'`. *)
GDBUS_STRING_TAGS == <<"s","o","g","v">>

(* "Argument type {} unsupported for dbus_send" *)
UnsupportedDiagnostic(tag) ==
  <<"A","r","g","u","m","e","n","t"," ","t","y","p","e"," ">> \o tag \o <<" ","u","n","s","u","p","p","o","r","t","e","d"," ","f","o","r"," ","d","b","u","s","_","s","e","n","d">>

(* Mutant: the value is emitted as it is, with no decode fragment. *)
DecodeTemplate_bare(value) == value \o <<" ">>

(* '"`echo {} | xxd -r -p`" ' *)
DecodeTemplate(value) ==
  <<DQuote, Backtick>> \o <<"e","c","h","o"," ">> \o value \o <<" ","|"," ","x","x","d"," ","-","r"," ","-","p">> \o
  <<Backtick, DQuote, " ">>

(* _dbus_send_format: the loop over args with the accumulator ret.  The     *)
(* result is the returned value and the lines printed to stderr.           *)
RECURSIVE _dbus_send_loop(_, _)
_dbus_send_loop(args, ret) ==
  IF args = <<>> THEN [ret |-> PyStr(ret), err |-> <<>>]
  ELSE LET arg == Head(args)
       IN  IF arg[1] = <<"/">>
           THEN _dbus_send_loop(Tail(args), ret)
           ELSE IF arg[1] \in DOMAIN DBUS_SEND_DICT
           THEN _dbus_send_loop(Tail(args),
                  ret \o DBUS_SEND_DICT[arg[1]] \o <<":">> \o arg[2] \o <<" ">>)
           ELSE IF arg[1] \in DOMAIN DBUS_SEND_STRINGS_DICT
           THEN _dbus_send_loop(Tail(args),
                  ret \o DBUS_SEND_STRINGS_DICT[arg[1]] \o <<":">> \o
                  DecodeTemplate(arg[2]))
           ELSE [ret |-> PyList(<<>>),
                 err |-> <<UnsupportedDiagnostic(arg[1])>>]

(* Mutant: the loop without the "/" hack. *)
RECURSIVE _dbus_send_loop_noskip(_, _)
_dbus_send_loop_noskip(args, ret) ==
  IF args = <<>> THEN [ret |-> PyStr(ret), err |-> <<>>]
  ELSE IF Head(args)[1] \in DOMAIN DBUS_SEND_DICT
  THEN _dbus_send_loop_noskip(Tail(args),
         ret \o DBUS_SEND_DICT[Head(args)[1]] \o <<":">> \o Head(args)[2] \o
         <<" ">>)
  ELSE IF Head(args)[1] \in DOMAIN DBUS_SEND_STRINGS_DICT
  THEN _dbus_send_loop_noskip(Tail(args),
         ret \o DBUS_SEND_STRINGS_DICT[Head(args)[1]] \o <<":">> \o
         DecodeTemplate(Head(args)[2]))
  ELSE [ret |-> PyList(<<>>),
        err |-> <<UnsupportedDiagnostic(Head(args)[1])>>]

_dbus_send_format_noskip(args) == _dbus_send_loop_noskip(args, <<>>)

_dbus_send_format(args) == _dbus_send_loop(args, <<>>)

(* dbus_send: prints one line, whatever _dbus_send_format returned (f). *)
dbus_send_print(b, name, iface, obj, method, f) ==
  [out |-> << <<"d","b","u","s","-","s","e","n","d"," ","-","-">> \o b \o <<" ","-","-","d","e","s","t","=">> \o Format(name) \o
              <<" ","-","-","p","r","i","n","t","-","r","e","p","l","y"," ">> \o obj \o <<" ">> \o iface \o <<".">> \o
              method \o <<" ">> \o Format(f.ret) >>,
   err |-> f.err]

dbus_send(b, name, iface, obj, method, args) ==
  dbus_send_print(b, name, iface, obj, method, _dbus_send_format(args))

RECURSIVE _gdbus_loop(_, _)
_gdbus_loop(args, ret) ==
  IF args = <<>> THEN ret
  ELSE LET arg == Head(args)
       IN  IF arg[1] = <<"/">>
           THEN _gdbus_loop(Tail(args), ret)
           ELSE IF IsSubstring(arg[1], GDBUS_STRING_TAGS)
           THEN _gdbus_loop(Tail(args), ret \o DecodeTemplate(arg[2]))
           ELSE _gdbus_loop(Tail(args), ret \o arg[2] \o <<" ">>)

_gdbus_format(args) == _gdbus_loop(args, <<>>)

gdbus(b, name, iface, obj, method, args) ==
  [out |-> << <<"g","d","b","u","s"," ","c","a","l","l"," ","-","-">> \o b \o <<" ","-","-","d","e","s","t"," ">> \o Format(name) \o
              <<" ","-","-","o","b","j","e","c","t","-","p","a","t","h"," ">> \o obj \o <<" ","-","-","m","e","t","h","o","d"," ">> \o iface \o
              <<".">> \o method \o <<" ">> \o _gdbus_format(args) >>,
   err |-> <<>>]

(* functions = {'dbus-send': dbus_send, 'gdbus': gdbus} *)
functions(key, b, name, iface, obj, method, args) ==
  IF key = "dbus-send" THEN dbus_send(b, name, iface, obj, method, args)
  ELSE gdbus(b, name, iface, obj, method, args)

-----------------------------------------------------------------------------
(* One iteration of main's loop on the line `l` read from the source `src`. *)
(* parsed_line[1] and parsed_line[2] raise IndexError on a short list,     *)
(* before process is called.                                                *)
Traceback == <<"I","n","d","e","x","E","r","r","o","r",":"," ","l","i","s","t"," ","i","n","d","e","x"," ","o","u","t"," ","o","f"," ","r","a","n","g","e">>

(* [parsed_line[i:i+2] for i in range(3, len(parsed_line)-1, 2)] *)
ArgSlices(parsed_line) ==
  [k \in 1..((Len(parsed_line) - 3) \div 2) |->
     SubSeq(parsed_line, 2 * k + 2, Min(2 * k + 3, Len(parsed_line)))]

(* Mutant: the override, when given, replaces the name of the file. *)
main_call_override(parsed_line, src, args) ==
  [parsed |-> parsed_line, called |-> TRUE, raised |-> FALSE, args |-> args]
  @@ functions(process, bus,
               IF name_for_stdin # None THEN name_for_stdin
               ELSE PyStr(Basename(src)),
               parsed_line[1], parsed_line[2], parsed_line[3], args)

(* The call of process, lines 77-80, and what it printed. *)
main_call(parsed_line, src, args) ==
  [parsed |-> parsed_line, called |-> TRUE, raised |-> FALSE, args |-> args]
  @@ functions(process, bus,
               IF src = <<"-">> THEN name_for_stdin ELSE PyStr(Basename(src)),
               parsed_line[1], parsed_line[2], parsed_line[3], args)

(* The loop body on the fields of the line, lines 75-80. *)
main_fields(parsed_line, src) ==
  IF ~PyIn(parsed_line[Len(parsed_line)], results_filter)
  THEN [parsed |-> parsed_line, called |-> FALSE, raised |-> FALSE,
        args |-> <<>>, out |-> <<>>, err |-> <<>>]
  ELSE IF Len(parsed_line) < 3
  THEN [parsed |-> parsed_line, called |-> FALSE, raised |-> TRUE,
        args |-> <<>>, out |-> <<>>, err |-> <<Traceback>>]
  ELSE main_call(parsed_line, src, ArgSlices(parsed_line))

main_iteration(l, src) == main_fields(Split(Strip(l), ";"), src)

(* print_usage and the message of the __main__ block. *)
UsageText == <<"u","s","a","g","e",":"," ","r","e","p","r","o","g","e","n",".","p","y">>
StdinMessage ==
  <<"r","e","p","r","o","g","e","n",".","p","y",":"," ","W","h","e","n"," ","t","a","k","i","n","g"," ","i","n","p","u","t"," ","f","r","o","m"," ","s","t","d","i","n",","," ","y","o","u"," ","m","u","s","t"," ","s","p","e","c","i","f","y"," ","b","u","s"," ","n","a","m","e">>

-----------------------------------------------------------------------------
(* Inputs. *)
MaxLines == 2
MaxArgs == 3

Buses == {<<"s","y","s","t","e","m">>, <<"s","e","s","s","i","o","n">>}
Targets == {"dbus-send", "gdbus"}
Names == {None, PyStr(<<"o","v">>)}
FileA == <<"d","/","a",".","b">>
Stdin == <<"-">>
FileLists == {<<FileA>>, <<FileA, Stdin>>, <<Stdin, FileA>>}
(* --filter: the default, or a list of the choices. *)
FilterDefault == PyStr(<<"[","C","r","a","s","h","]">>)
Filters == {FilterDefault, PyList(<<<<"C","r","a","s","h">>>>),
            PyList(<<<<"S","u","c","c","e","s","s">>, <<"C","r","a","s","h">>>>)}

(* A log line: the fields joined by ";" and the newline. *)
RECURSIVE Join(_)
Join(fields) ==
  IF Len(fields) = 1 THEN fields[1]
  ELSE fields[1] \o <<";">> \o Join(Tail(fields))

LogLine(fields) == Join(fields) \o <<NL>>

Head3 == <<<<"a">>, <<"/","o">>, <<"m">>>>
(* The fields before the result: none, a call with a dangling type tag,    *)
(* with one argument, with an argument of unsupported type.                 *)
FieldLists == {<<>>, Head3 \o <<<<"i">>>>, Head3 \o <<<<"i">>, <<"7">>>>,
               Head3 \o <<<<"z">>, <<"7">>>>}
Lines == {LogLine(f \o <<r>>) : f \in FieldLists, r \in {<<"C","r","a","s","h">>, <<>>}}
           \cup {LogLine(Head3 \o <<<<"i">>, <<"7">>, <<"S","u","c","c","e","s","s">>>>)}

(* Arguments of the records the formatters are exercised on. *)
ArgPairs ==
  {<<<<"n">>, <<"-","1">>>>, <<<<"q">>, <<"2">>>>, <<<<"i">>, <<"3">>>>, <<<<"b">>, <<"1">>>>,
   <<<<"s">>, <<"6","a">>>>, <<<<"o">>, <<"2","f">>>>, <<<<"v">>, <<"7","b">>>>,
   <<<<"g">>, <<"7","3">>>>, <<<<"/">>, <<"9">>>>, <<<<"z">>, <<"0">>>>}

RECURSIVE Flatten(_)
Flatten(ss) == IF ss = <<>> THEN <<>> ELSE Head(ss) \o Flatten(Tail(ss))

ArgLists == UNION {[1..k -> ArgPairs] : k \in 0..MaxArgs}
RecordLines == {LogLine(Head3 \o Flatten(a) \o <<<<"C","r","a","s","h">>>>) : a \in ArgLists}

-----------------------------------------------------------------------------
Init ==
  /\ bus \in Buses
  /\ process \in Targets
  /\ name_for_stdin \in Names
  /\ results_filter \in Filters
  /\ files \in FileLists
  /\ pc = "main"
  /\ fileIdx = 1
  /\ line = <<>>
  /\ nread = 0
  /\ stdout = <<>>
  /\ stderr = <<>>
  /\ status = -1
  /\ log = <<>>

(* main, lines 71-72: the stdin check; then fileinput opens the first file. *)
MainEntry ==
  /\ pc = "main"
  /\ pc' = IF name_for_stdin = None /\ \E k \in 1..Len(files) : files[k] = Stdin
           THEN "usage" ELSE "loop"
  /\ UNCHANGED <<bus, process, name_for_stdin, results_filter, files, fileIdx,
                 line, nread, stdout, stderr, status, log>>

(* __main__, lines 102-107: main returned False. *)
UsageExit ==
  /\ pc = "usage"
  /\ stderr' = Append(stderr, UsageText)
  /\ stdout' = Append(stdout, StdinMessage)
  /\ status' = 2
  /\ pc' = "exit"
  /\ UNCHANGED <<bus, process, name_for_stdin, results_filter, files, fileIdx,
                 line, nread, log>>

(* fileinput yields the next line of the current file. *)
NextLine ==
  /\ pc = "loop"
  /\ nread < MaxLines
  /\ \E l \in Lines : line' = l
  /\ nread' = nread + 1
  /\ pc' = "body"
  /\ UNCHANGED <<bus, process, name_for_stdin, results_filter, files, fileIdx,
                 stdout, stderr, status, log>>

(* fileinput reaches the end of the current file: the next file, or the    *)
(* end of the loop, `return True` and exit status 0.                        *)
EndOfFile ==
  /\ pc = "loop"
  /\ IF fileIdx < Len(files)
     THEN fileIdx' = fileIdx + 1 /\ UNCHANGED <<pc, status>>
     ELSE pc' = "exit" /\ status' = 0 /\ UNCHANGED fileIdx
  /\ UNCHANGED <<bus, process, name_for_stdin, results_filter, files, line,
                 nread, stdout, stderr, log>>

(* The loop body, lines 74-80, on the line read; r is what it did. *)
LoopBody(r) ==
  /\ stdout' = stdout \o r.out
  /\ stderr' = stderr \o r.err
  /\ log' = Append(log, [file |-> files[fileIdx], line |-> line] @@ r)
  /\ pc' = IF r.raised THEN "exit" ELSE "loop"
  /\ status' = IF r.raised THEN 1 ELSE status

ProcessLine ==
  /\ pc = "body"
  /\ \E r \in {main_iteration(line, files[fileIdx])} : LoopBody(r)
  /\ UNCHANGED <<bus, process, name_for_stdin, results_filter, files, fileIdx,
                 line, nread>>

Next == MainEntry \/ UsageExit \/ NextLine \/ EndOfFile \/ ProcessLine

Spec == Init /\ [][Next]_vars

(* The formatters on one call record: main has read one line of a named    *)
(* file and is about to run the loop body on it.                            *)
FormatInit ==
  /\ bus = <<"s","e","s","s","i","o","n">>
  /\ process \in Targets
  /\ name_for_stdin = None
  /\ results_filter = PyList(<<<<"C","r","a","s","h">>>>)
  /\ files = <<FileA>>
  /\ pc = "body"
  /\ fileIdx = 1
  /\ line \in RecordLines
  /\ nread = 1
  /\ stdout = <<>>
  /\ stderr = <<>>
  /\ status = -1
  /\ log = <<>>

FormatSpec == FormatInit /\ [][ProcessLine]_vars

-----------------------------------------------------------------------------
(* Reading an emitted command back: the words a shell would split it into  *)
(* (at spaces outside double quotes).  The text is split at every space,   *)
(* and the pieces of a quoted stretch are joined again.                     *)
OddQuotes(w) == Cardinality({j \in 1..Len(w) : w[j] = DQuote}) % 2 = 1

RECURSIVE JoinQuoted(_, _, _)
JoinQuoted(pieces, cur, open) ==
  IF pieces = <<>> THEN (IF open THEN <<cur>> ELSE <<>>)
  ELSE IF open
  THEN IF OddQuotes(Head(pieces))
       THEN <<cur \o <<" ">> \o Head(pieces)>> \o
            JoinQuoted(Tail(pieces), <<>>, FALSE)
       ELSE JoinQuoted(Tail(pieces), cur \o <<" ">> \o Head(pieces), TRUE)
  ELSE IF OddQuotes(Head(pieces))
  THEN JoinQuoted(Tail(pieces), Head(pieces), TRUE)
  ELSE <<Head(pieces)>> \o JoinQuoted(Tail(pieces), <<>>, FALSE)

NonEmpty(w) == w # <<>>

ShellWords(s) == SelectSeq(JoinQuoted(Split(s, " "), <<>>, FALSE), NonEmpty)

(* The words of a command after the method: 6 words precede them in a      *)
(* dbus-send command, 9 in a gdbus command.                                 *)
ArgWordsFrom(words, first) == SubSeq(words, first, Len(words))

ArgWords(cmd) ==
  ArgWordsFrom(ShellWords(cmd), IF process = "dbus-send" THEN 7 ELSE 10)

(* The destination of a command: --dest=NAME, or --dest NAME. *)
DestOfWords(words) ==
  IF process = "dbus-send" THEN SubSeq(words[3], 8, Len(words[3]))
  ELSE words[5]

DestOf(cmd) == DestOfWords(ShellWords(cmd))

(* A word split at its first ":". *)
ColonAt(w) == CHOOSE i \in 1..Len(w) : w[i] = ":" /\ \A j \in 1..(i - 1) : w[j] # ":"
HasColon(w) == \E i \in 1..Len(w) : w[i] = ":"
BeforeColon(w) == SubSeq(w, 1, ColonAt(w) - 1)
AfterColon(w) == SubSeq(w, ColonAt(w) + 1, Len(w))

IsPrefix(p, s) == Len(p) <= Len(s) /\ SubSeq(s, 1, Len(p)) = p
IsSuffix(p, s) == Len(p) <= Len(s) /\ SubSeq(s, Len(s) - Len(p) + 1, Len(s)) = p

(* Vocabulary of the claims. *)
PrimitiveTags == {<<"n">>, <<"q">>, <<"i">>, <<"u">>, <<"x">>, <<"t">>, <<"d">>, <<"y">>, <<"b">>}
StringLikeTags ==
  IF process = "dbus-send" THEN {<<"s">>, <<"o">>} ELSE {<<"s">>, <<"o">>, <<"v">>}
(* Tags with a rendering rule: every tag has one in gdbus. *)
HasRule(tag) ==
  process = "gdbus" \/ tag \in PrimitiveTags \/ tag \in {<<"s">>, <<"o">>}
NotSlash(arg) == arg[1] # <<"/">>
Kept(args) == SelectSeq(args, NotSlash)
AllHaveRule(args) == \A k \in 1..Len(args) : HasRule(args[k][1])
(* The result classification and the fields between method and result. *)
ResultOf(parsed) == parsed[Len(parsed)]
Between(parsed) == SubSeq(parsed, 4, Len(parsed) - 1)
ValidLine(parsed) == Len(parsed) >= 4 /\ (Len(parsed) - 4) % 2 = 0
Qualifies(parsed) ==
  \E k \in 1..Len(results_filter.list) : results_filter.list[k] = ResultOf(parsed)
(* The decode fragment of the claims, quoted. *)
DecodeFragment(value) ==
  <<DQuote, Backtick>> \o <<"e","c","h","o"," ">> \o value \o <<" ","|"," ","x","x","d"," ","-","r"," ","-","p">> \o
  <<Backtick, DQuote>>
TypeName(tag) ==
  IF tag \in DOMAIN DBUS_SEND_DICT THEN DBUS_SEND_DICT[tag]
  ELSE DBUS_SEND_STRINGS_DICT[tag]
ByStdinCheck ==
  name_for_stdin = None /\ \E k \in 1..Len(files) : files[k] = Stdin

-----------------------------------------------------------------------------
(* C1: with a caller-supplied filter list, the lines printed are exactly   *)
(* the commands of the valid lines whose result is in the filter, one per  *)
(* such line and in input order (records with an unsupported-type failure  *)
(* aside); a line whose result is not in the filter prints nothing.        *)
C1_Expected(e) ==
  IF ValidLine(e.parsed) /\ Qualifies(e.parsed) THEN 1 ELSE 0

C1_FilteredOutput ==
  (results_filter.kind = "list" /\ ~ByStdinCheck) =>
    /\ \A i \in 1..Len(log) :
         AllHaveRule(Kept(log[i].args)) =>
           Len(log[i].out) = C1_Expected(log[i])
    /\ stdout = Flatten([i \in 1..Len(log) |-> log[i].out])

(* The same statement on the runs whose lines are all valid: the lines     *)
(* with a wrong field count are what C1_FilteredOutput fails on.            *)
C1_OnValidInput ==
  (\A i \in 1..Len(log) : ValidLine(log[i].parsed)) => C1_FilteredOutput

(* C2: in dbus_send, a qualifying record with an argument of a type that   *)
(* has no rendering rule writes the diagnostic naming the tag to stderr    *)
(* and nothing to stdout, and the run goes on.                              *)
C2_UnsupportedPrintsNothing ==
  \A i \in 1..Len(log) :
    (process = "dbus-send" /\ log[i].called /\ ValidLine(log[i].parsed)
       /\ ResultOf(log[i].parsed) = <<"C","r","a","s","h">>
       /\ ~AllHaveRule(Kept(log[i].args))) =>
      /\ \E k \in 1..Len(log[i].args) :
           log[i].err = <<UnsupportedDiagnostic(log[i].args[k][1])>>
      /\ log[i].out = <<>>
      /\ ~log[i].raised

(* C3: with "-" among the sources and no bus name, no record is processed, *)
(* nothing is written to stdout, usage and the bus-name message are        *)
(* printed and the exit status is 2.                                        *)
C3_StdinWithoutName ==
  ByStdinCheck =>
    /\ log = <<>>
    /\ stdout = <<>>
    /\ pc = "exit" =>
         /\ status = 2
         /\ \E k \in 1..Len(stderr) : stderr[k] = UsageText
         /\ \E k \in 1..Len(stdout \o stderr) :
              (stdout \o stderr)[k] = StdinMessage

(* C4: without --filter, a line is passed to the formatter and prints if   *)
(* and only if its last field is exactly Crash.                             *)
C4_DefaultFilterIsCrash ==
  results_filter = FilterDefault =>
    \A i \in 1..Len(log) :
      /\ (log[i].called \/ log[i].raised) => ResultOf(log[i].parsed) = <<"C","r","a","s","h">>
      /\ log[i].out # <<>> => ResultOf(log[i].parsed) = <<"C","r","a","s","h">>

(* C9: a line with a wrong field count is skipped: main does not abort on  *)
(* it, and the run returns success.                                         *)
C9_UnparseableSkipped ==
  /\ \A i \in 1..Len(log) : ~ValidLine(log[i].parsed) => ~log[i].raised
  /\ (pc = "exit" /\ ~ByStdinCheck) => status = 0

(* C10: the arguments passed to the formatter are complete pairs taken     *)
(* from the fields strictly between the method name and the last field:    *)
(* the result classification is never a tag or a value of an argument.     *)
C10_ResultNeverArgument ==
  \A i \in 1..Len(log) :
    log[i].called =>
      /\ \A k \in 1..Len(log[i].args) : Len(log[i].args[k]) = 2
      /\ IsPrefix(Flatten(log[i].args), Between(log[i].parsed))

-----------------------------------------------------------------------------
(* The formatted records: the entries of the log whose record reached the  *)
(* formatter and whose arguments (the "/" ones aside) all have a rule.     *)
Formatted(e) == e.called /\ AllHaveRule(Kept(e.args))

(* The word of the command that renders argument a: it holds a's value,    *)
(* after a's type name in a dbus-send command.                              *)
Renders(w, a) ==
  /\ IsSubstring(a[2], w)
  /\ process = "dbus-send" => IsPrefix(TypeName(a[1]) \o <<":">>, w)

(* C5: in both profiles an argument with the tag "/" contributes nothing   *)
(* to the emitted arguments, wherever it stands and however many there     *)
(* are: the record is formatted, the other arguments are rendered in their *)
(* order, and no diagnostic is printed for it.                              *)
C5_Entry(e, kept, words) ==
  /\ Len(e.out) = 1
  /\ e.err = <<>>
  /\ Len(words) = Len(kept)
  /\ \A k \in 1..Len(kept) : Renders(words[k], kept[k])

C5_SlashDropped ==
  \A i \in 1..Len(log) :
    /\ \A k \in 1..Len(log[i].err) :
         log[i].err[k] # UnsupportedDiagnostic(<<"/">>)
    /\ Formatted(log[i]) =>
         C5_Entry(log[i], Kept(log[i].args), ArgWords(log[i].out[1]))

C5_Witness ==
  \E i \in 1..Len(log) :
    /\ Formatted(log[i])
    /\ Len(log[i].args) = 3
    /\ log[i].args[1][1] = <<"s">>
    /\ log[i].args[2][1] = <<"/">>
    /\ log[i].args[3][1] = <<"i">>
    /\ Len(ArgWords(log[i].out[1])) = 2

(* C6: in every emitted command the raw value of a string-like argument    *)
(* (s, o in dbus-send; s, o, v in gdbus) stands only inside the quoted    *)
(* decode fragment "`echo <hex> | xxd -r -p`", never as a bare word, and  *)
(* it stands there as it was logged.                                        *)
C6_Entry(kept, words) ==
  \A k \in 1..Len(kept) :
    kept[k][1] \in StringLikeTags =>
      /\ words[k] =
           (IF process = "dbus-send" THEN TypeName(kept[k][1]) \o <<":">>
            ELSE <<>>) \o DecodeFragment(kept[k][2])
      /\ \A j \in 1..Len(words) :
           /\ words[j] # kept[k][2]
           /\ ~IsSuffix(<<":">> \o kept[k][2], words[j])

C6_HexOnlyInDecodeFragment ==
  \A i \in 1..Len(log) :
    Formatted(log[i]) =>
      C6_Entry(Kept(log[i].args), ArgWords(log[i].out[1]))

C6_Witness ==
  \E i \in 1..Len(log) :
    /\ Formatted(log[i])
    /\ process = "gdbus"
    /\ Len(log[i].args) = 2
    /\ log[i].args[1][1] = <<"v">>
    /\ log[i].args[2][1] = <<"i">>
    /\ ArgWords(log[i].out[1])[1] = DecodeFragment(log[i].args[1][2])

(* C7: in dbus-send, for a record whose arguments all have primitive tags, *)
(* the emitted arguments are the words <typename>:<value> in argument      *)
(* order, the mapping of tags to type names is one-to-one, and stripping   *)
(* the type prefix and inverting the mapping gives back the (tag, value)  *)
(* pairs, as many and in the same positions.                                *)
TagOfTypeName(tn) ==
  IF \E t \in DOMAIN DBUS_SEND_DICT : DBUS_SEND_DICT[t] = tn
  THEN CHOOSE t \in DOMAIN DBUS_SEND_DICT : DBUS_SEND_DICT[t] = tn
  ELSE <<>>

ReadBack(w) ==
  IF HasColon(w) THEN <<TagOfTypeName(BeforeColon(w)), AfterColon(w)>>
  ELSE <<w>>

AllPrimitive(args) == \A k \in 1..Len(args) : args[k][1] \in PrimitiveTags

C7_Entry(e, words) ==
  /\ Len(e.out) = 1
  /\ [k \in 1..Len(words) |-> ReadBack(words[k])] = e.args

C7_PrimitiveRoundTrip ==
  /\ DOMAIN DBUS_SEND_DICT = PrimitiveTags
  /\ \A t1, t2 \in DOMAIN DBUS_SEND_DICT :
       DBUS_SEND_DICT[t1] = DBUS_SEND_DICT[t2] => t1 = t2
  /\ \A i \in 1..Len(log) :
       (process = "dbus-send" /\ log[i].called /\ AllPrimitive(log[i].args)) =>
         C7_Entry(log[i], ArgWords(log[i].out[1]))

C7_Witness ==
  \E i \in 1..Len(log) :
    /\ process = "dbus-send"
    /\ log[i].called
    /\ log[i].args = <<<<<<"q">>, <<"2">>>>, <<<<"n">>, <<"-","1">>>>, <<<<"b">>, <<"1">>>>>>
    /\ Len(ArgWords(log[i].out[1])) = 3

(* C8: the destination of every emitted command is the base name of the    *)
(* file its line was read from, and the bus-name override only when the    *)
(* line was read from standard input, also when files and "-" are mixed   *)
(* and an override is given.                                                *)
C8_DestinationBySource ==
  \A i \in 1..Len(log) :
    \A k \in 1..Len(log[i].out) :
      DestOf(log[i].out[k]) =
        IF log[i].file = Stdin THEN name_for_stdin.str
        ELSE Basename(log[i].file)

C8_Witness ==
  /\ name_for_stdin # None
  /\ \E i, j \in 1..Len(log) :
       /\ log[i].file = Stdin /\ log[i].out # <<>>
       /\ log[j].file = FileA /\ log[j].out # <<>>
       /\ DestOf(log[i].out[1]) = <<"o","v">>
       /\ DestOf(log[j].out[1]) = <<"a",".","b">>

====
